---- MODULE Spec2Model ----
(***************************************************************************)
(* Model of deploy/api/utils/music_embedding_client.py:                    *)
(* MusicEmbeddingClient.prepare_feature and .get_embeddings, the           *)
(* chunker they call and the inference server they talk to.                *)
(*                                                                         *)
(* A waveform is represented by its shape (channels, frames); a sample is  *)
(* identified by its position, a segment by the position of its first      *)
(* sample and its size, a feature tensor by the segment it was computed    *)
(* from, an embedding by the feature tensor it was computed from.          *)
(***************************************************************************)
EXTENDS Integers, Sequences, FiniteSets

\* ------------------------------------------------------------ constants
EXTRACT_EMB_CHUNK_SIZE == 1024
SAMPLE_RATE == 8000
\* SEGMENT_SIZE = 1.0 and HOP_SIZE = 0.5 seconds, kept in tenths of a second
SEGMENT_SIZE_TENTHS == 10
HOP_SIZE_TENTHS == 5
N_MELS == 256
HOP_LENGTH == 256

\* ------------------------------------------------------------ bounds
\* frames = h * hop + r with h = c * EXTRACT_EMB_CHUNK_SIZE + d,
\* c in 0..MaxChunkMult, d in 0..MaxExtraHops, r near 0 or near hop - 1,
\* and the 3 second waveform
MaxChunkMult == 2
MaxExtraHops == 2
MaxRem == 0
MaxChannels == 2
\* inputs of the chunker when it is checked on its own
MaxChunkerInput == 2100

VARIABLES
    self,               \* the client: url, segment_size, hop_size, model_name
    failOn,             \* server state: the inputs the server rejects
    pc,                 \* position of the caller inside get_embeddings
    call,               \* number of get_embeddings calls started
    file,               \* the audio file of the current call
    segments,           \* prepare_feature: the unfolded segments
    Audio,              \* get_embeddings: the feature tensors
    Audio_Segments,     \* get_embeddings: the chunks
    i,                  \* index (1-based) of the chunk the loop is at
    Output_Embeddings,  \* batches collected so far
    response,           \* response of the last infer call
    pending,            \* exception travelling through the with block
    result,             \* value returned to the caller
    error,              \* exception raised to the caller
    conns,              \* connections currently open
    nextConn,           \* connections opened so far, all calls
    inflight,           \* requests sent and not yet answered
    requests,           \* requests sent by the current call, in order
    prev,               \* outcome of the previous call
    cin,                \* chunker checked on its own: input
    cout                \* chunker checked on its own: output

vars == <<self, failOn, pc, call, file, segments, Audio, Audio_Segments, i,
          Output_Embeddings, response, pending, result, error, conns,
          nextConn, inflight, requests, prev, cin, cout>>

None == [none |-> TRUE]
NoError == [type |-> "none", chunk |-> -1]

Min(a, b) == IF a < b THEN a ELSE b

\* ------------------------------------------------------------ __init__
NewClient(url) ==
    [url |-> url,
     segment_size |-> (SEGMENT_SIZE_TENTHS * SAMPLE_RATE) \div 10,
     hop_size |-> (HOP_SIZE_TENTHS * SAMPLE_RATE) \div 10,
     model_name |-> "neuralfp"]

\* ------------------------------------------------------------ inputs
SampleRates == {SAMPLE_RATE, 44100}

HopCounts ==
    {c * EXTRACT_EMB_CHUNK_SIZE + d : c \in 0..MaxChunkMult, d \in 0..MaxExtraHops}

Remainders(hop) == (0..MaxRem) \cup ((hop - 1 - MaxRem)..(hop - 1))

FrameCounts ==
    LET hop == NewClient("u").hop_size
    IN  {h * hop + r : h \in HopCounts, r \in Remainders(hop)}
            \cup {3 * SAMPLE_RATE}

Files ==
    [channels : 1..MaxChannels, frames : FrameCounts, sr : SampleRates]

\* ------------------------------------------------------------ prepare_feature
\* torchaudio.load returns a tensor of shape (channels, frames)
LoadShape(f) == <<f.channels, f.frames>>

\* Tensor.squeeze(): every dimension of size 1 is removed
Squeeze(shape) == SelectSeq(shape, LAMBDA d : d # 1)

\* size of dimension 0 as unfold sees it (a 0-d tensor counts as size 1)
Dim0(shape) == IF shape = <<>> THEN 1 ELSE shape[1]

\* variant: unfold never raises, a short waveform gives zero windows
UnfoldRaises_never(shape, size) == FALSE

\* Tensor.unfold(0, size, step) raises when size exceeds the dimension
UnfoldRaises(shape, size) == size > Dim0(shape)

\* variant: a window must end strictly before the last sample
WindowStarts_strict(len, size, step) ==
    {s \in {j * step : j \in 0..(len \div step)} : s + size < len}

\* the windows of `size` samples at multiples of `step` that fit in dimension 0
WindowStarts(len, size, step) ==
    {s \in {j * step : j \in 0..(len \div step)} : s + size <= len}

\* Tensor.unfold(0, size, step): the windows in increasing order of start
Unfold(len, size, step) ==
    LET n == Cardinality(WindowStarts(len, size, step))
    IN  [k \in 1..n |-> [start |-> (k - 1) * step, size |-> size]]

\* variant: the sizes follow the sample rate the decoder reports
FrameOf_sr(f) ==
    LET shape == Squeeze(LoadShape(f))
        size == (SEGMENT_SIZE_TENTHS * f.sr) \div 10
        step == (HOP_SIZE_TENTHS * f.sr) \div 10
    IN  IF UnfoldRaises(shape, size)
        THEN [raised |-> TRUE, segments |-> <<>>]
        ELSE [raised |-> FALSE, segments |-> Unfold(Dim0(shape), size, step)]

\* wav.squeeze().unfold(0, self.segment_size, self.hop_size); sr is not used
FrameOf(f) ==
    LET shape == Squeeze(LoadShape(f))
    IN  IF UnfoldRaises(shape, self.segment_size)
        THEN [raised |-> TRUE, segments |-> <<>>]
        ELSE [raised |-> FALSE,
              segments |-> Unfold(Dim0(shape), self.segment_size, self.hop_size)]

\* segments - mean, MelSpectrogram, clamp, log: one feature tensor per segment,
\* in segment order
Features(segs) == [k \in 1..Len(segs) |-> [mel |-> segs[k].start]]

\* shape of one feature tensor: (n_mels, time frames)
FeatureShape(size) == <<N_MELS, size \div HOP_LENGTH + 1>>

\* ------------------------------------------------------------ chunker
\* variant: only full chunks are produced, the remainder is dropped
split_to_equal_chunk_floor(x, chunk_size) ==
    LET m == Len(x) \div chunk_size
    IN  [c \in 1..m |-> SubSeq(x, (c - 1) * chunk_size + 1, c * chunk_size)]

\* split_to_equal_chunk(x, chunk_size): consecutive slices of chunk_size
\* elements, the last one shorter when chunk_size does not divide len(x)
split_to_equal_chunk(x, chunk_size) ==
    LET n == Len(x)
        m == (n + chunk_size - 1) \div chunk_size
    IN  [c \in 1..m |->
            SubSeq(x, (c - 1) * chunk_size + 1, Min(c * chunk_size, n))]

\* ------------------------------------------------------------ server
\* the first input tensors a server may be set to reject (-1: none)
FailChoices ==
    {-1} \cup {c * EXTRACT_EMB_CHUNK_SIZE * NewClient("u").hop_size :
                 c \in 0..MaxChunkMult}

\* the server answers a request as a function of the request alone
ServerAccepts(req) == failOn = -1 \/ req.data[1].mel # failOn

\* one embedding per input tensor, in input order
ServerInfer(req) ==
    [output |-> [k \in 1..Len(req.data) |-> [emb |-> req.data[k].mel]]]

\* ------------------------------------------------------------ get_embeddings
\* np.concatenate over a list of batches: the batches' rows, in list order
RECURSIVE Concatenate(_)
Concatenate(batches) ==
    IF batches = <<>> THEN <<>>
    ELSE Head(batches) \o Concatenate(Tail(batches))

\* InferInput("input", shape, dtype) with the chunk's data, and the
\* arguments of triton_client.infer
InferRequest(chunk, conn) ==
    [model_name |-> self.model_name,
     request_id |-> "1",
     input_name |-> "input",
     shape |-> <<Len(chunk)>> \o FeatureShape(self.segment_size),
     datatype |-> "FP32",
     data |-> chunk,
     outputs |-> <<"output">>,
     conn |-> conn]

NoOutcome ==
    [file |-> None, segments |-> <<>>, chunks |-> <<>>, requests |-> <<>>,
     result |-> None, error |-> NoError, self |-> None]

Outcome ==
    [file |-> file, segments |-> segments, chunks |-> Audio_Segments,
     requests |-> requests, result |-> result, error |-> error, self |-> self]

Ended == pc \in {"returned", "raised"}

chunkerVars == <<cin, cout>>

Init ==
    /\ self = NewClient("triton:8001")
    /\ failOn \in FailChoices
    /\ pc = "idle"
    /\ call = 0
    /\ file = None
    /\ segments = <<>>
    /\ Audio = <<>>
    /\ Audio_Segments = <<>>
    /\ i = 0
    /\ Output_Embeddings = <<>>
    /\ response = None
    /\ pending = NoError
    /\ result = None
    /\ error = NoError
    /\ conns = {}
    /\ nextConn = 0
    /\ inflight = <<>>
    /\ requests = <<>>
    /\ prev = NoOutcome
    /\ cin = <<>>
    /\ cout = None

\* entry of get_embeddings: every local starts afresh
Enter(f) ==
    /\ file' = f
    /\ call' = call + 1
    /\ pc' = "prepare_feature"
    /\ segments' = <<>>
    /\ Audio' = <<>>
    /\ Audio_Segments' = <<>>
    /\ i' = 0
    /\ Output_Embeddings' = <<>>
    /\ response' = None
    /\ pending' = NoError
    /\ result' = None
    /\ error' = NoError
    /\ requests' = <<>>
    /\ UNCHANGED <<self, failOn, conns, nextConn, inflight, chunkerVars>>

\* first call of get_embeddings(file)
FirstCall ==
    /\ pc = "idle"
    /\ \E f \in Files : Enter(f)
    /\ prev' = NoOutcome

\* second call, on a file with the same waveform and any reported sample rate
SecondCall ==
    /\ Ended
    /\ call = 1
    /\ \E sr \in SampleRates : Enter([file EXCEPT !.sr = sr])
    /\ prev' = Outcome

\* prepare_feature: load, squeeze, unfold, mean removal, mel, clamp, log
PrepareFeature ==
    /\ pc = "prepare_feature"
    /\ LET framed == FrameOf(file)
       IN  IF framed.raised
           THEN /\ error' = [type |-> "RuntimeError", chunk |-> -1]
                /\ pc' = "raised"
                /\ UNCHANGED <<segments, Audio>>
           ELSE /\ segments' = framed.segments
                /\ Audio' = Features(segments')
                /\ error' = error
                /\ pc' = "split"
    /\ UNCHANGED <<self, failOn, call, file, Audio_Segments, i, Output_Embeddings,
                   response, pending, result, conns, nextConn, inflight,
                   requests, prev, chunkerVars>>

\* variant: the list of batches lives on across calls
Split_keep ==
    /\ pc = "split"
    /\ Audio_Segments' = split_to_equal_chunk(Audio, EXTRACT_EMB_CHUNK_SIZE)
    /\ Output_Embeddings' =
          IF call = 2 /\ prev.error.type = "none" THEN <<prev.result>> ELSE <<>>
    /\ i' = 1
    /\ pc' = "loop"
    /\ UNCHANGED <<self, failOn, call, file, segments, Audio, response, pending,
                   result, error, conns, nextConn, inflight, requests, prev,
                   chunkerVars>>

\* Audio_Segments = split_to_equal_chunk(...); Output_Embeddings = []
Split ==
    /\ pc = "split"
    /\ Audio_Segments' = split_to_equal_chunk(Audio, EXTRACT_EMB_CHUNK_SIZE)
    /\ Output_Embeddings' = <<>>
    /\ i' = 1
    /\ pc' = "loop"
    /\ UNCHANGED <<self, failOn, call, file, segments, Audio, response, pending,
                   result, error, conns, nextConn, inflight, requests, prev,
                   chunkerVars>>

\* variant: the loop stops one chunk early
LoopNext_skipLast ==
    /\ pc = "loop"
    /\ pc' = IF i < Len(Audio_Segments) THEN "connect" ELSE "concatenate"
    /\ UNCHANGED <<self, failOn, call, file, segments, Audio, Audio_Segments, i,
                   Output_Embeddings, response, pending, result, error, conns,
                   nextConn, inflight, requests, prev, chunkerVars>>

\* for input_audio in Audio_Segments: next chunk, or leave the loop
LoopNext ==
    /\ pc = "loop"
    /\ pc' = IF i <= Len(Audio_Segments) THEN "connect" ELSE "concatenate"
    /\ UNCHANGED <<self, failOn, call, file, segments, Audio, Audio_Segments, i,
                   Output_Embeddings, response, pending, result, error, conns,
                   nextConn, inflight, requests, prev, chunkerVars>>

\* with grpcclient.InferenceServerClient(url=self.url) as triton_client
Connect ==
    /\ pc = "connect"
    /\ nextConn' = nextConn + 1
    /\ conns' = conns \cup {nextConn'}
    /\ pc' = "infer"
    /\ UNCHANGED <<self, failOn, call, file, segments, Audio, Audio_Segments, i,
                   Output_Embeddings, response, pending, result, error,
                   inflight, requests, prev, chunkerVars>>

\* variant: the requests of all remaining chunks are dispatched together
InferSend_all ==
    /\ pc = "infer"
    /\ LET reqs == [k \in 1..(Len(Audio_Segments) - i + 1) |->
                       InferRequest(Audio_Segments[i + k - 1], nextConn)]
       IN  /\ inflight' = inflight \o reqs
           /\ requests' = requests \o reqs
    /\ pc' = "await"
    /\ UNCHANGED <<self, failOn, call, file, segments, Audio, Audio_Segments, i,
                   Output_Embeddings, response, pending, result, error, conns,
                   nextConn, prev, chunkerVars>>

\* triton_client.infer(...): the request goes out on the connection just opened
InferSend ==
    /\ pc = "infer"
    /\ LET req == InferRequest(Audio_Segments[i], nextConn)
       IN  /\ inflight' = Append(inflight, req)
           /\ requests' = Append(requests, req)
    /\ pc' = "await"
    /\ UNCHANGED <<self, failOn, call, file, segments, Audio, Audio_Segments, i,
                   Output_Embeddings, response, pending, result, error, conns,
                   nextConn, prev, chunkerVars>>

\* triton_client.infer(...) returns the server's response or raises
InferReturn ==
    /\ pc = "await"
    /\ inflight # <<>>
    /\ LET req == Head(inflight)
       IN  IF ServerAccepts(req)
           THEN /\ response' = ServerInfer(req)
                /\ pending' = NoError
           ELSE /\ response' = response
                /\ pending' = [type |-> "InferenceServerException", chunk |-> -1]
    /\ inflight' = Tail(inflight)
    /\ pc' = "exit_with"
    /\ UNCHANGED <<self, failOn, call, file, segments, Audio, Audio_Segments, i,
                   Output_Embeddings, result, error, conns, nextConn, requests,
                   prev, chunkerVars>>

\* variant: the exception is swallowed and the loop goes on to the next chunk
ExitWith_swallow ==
    /\ pc = "exit_with"
    /\ conns' = conns \ {nextConn}
    /\ error' = error
    /\ pc' = IF pending.type # "none" THEN "loop" ELSE "collect"
    /\ i' = IF pending.type # "none" THEN i + 1 ELSE i
    /\ UNCHANGED <<self, failOn, call, file, segments, Audio, Audio_Segments,
                   Output_Embeddings, response, pending, result, nextConn,
                   inflight, requests, prev, chunkerVars>>

\* variant: the connection is closed only when the request succeeded
ExitWith_leak ==
    /\ pc = "exit_with"
    /\ IF pending.type # "none"
       THEN /\ conns' = conns
            /\ error' = pending
            /\ pc' = "raised"
       ELSE /\ conns' = conns \ {nextConn}
            /\ error' = error
            /\ pc' = "collect"
    /\ UNCHANGED <<self, failOn, call, file, segments, Audio, Audio_Segments, i,
                   Output_Embeddings, response, pending, result, nextConn,
                   inflight, requests, prev, chunkerVars>>

\* leaving the with block closes the connection; an exception goes on to the caller
ExitWith ==
    /\ pc = "exit_with"
    /\ conns' = conns \ {nextConn}
    /\ IF pending.type # "none"
       THEN /\ error' = pending
            /\ pc' = "raised"
       ELSE /\ error' = error
            /\ pc' = "collect"
    /\ UNCHANGED <<self, failOn, call, file, segments, Audio, Audio_Segments, i,
                   Output_Embeddings, response, pending, result, nextConn,
                   inflight, requests, prev, chunkerVars>>

\* variant: the list is overwritten by the latest batch
Collect_overwrite ==
    /\ pc = "collect"
    /\ Output_Embeddings' = <<response.output>>
    /\ i' = i + 1
    /\ pc' = "loop"
    /\ UNCHANGED <<self, failOn, call, file, segments, Audio, Audio_Segments,
                   response, pending, result, error, conns, nextConn, inflight,
                   requests, prev, chunkerVars>>

\* output_data = response.as_numpy("output"); Output_Embeddings.append(...)
Collect ==
    /\ pc = "collect"
    /\ Output_Embeddings' = Append(Output_Embeddings, response.output)
    /\ i' = i + 1
    /\ pc' = "loop"
    /\ UNCHANGED <<self, failOn, call, file, segments, Audio, Audio_Segments,
                   response, pending, result, error, conns, nextConn, inflight,
                   requests, prev, chunkerVars>>

\* np.concatenate(Output_Embeddings) raises on an empty list; return
ConcatenateReturn ==
    /\ pc = "concatenate"
    /\ IF Output_Embeddings = <<>>
       THEN /\ error' = [type |-> "ValueError", chunk |-> -1]
            /\ result' = result
            /\ pc' = "raised"
       ELSE /\ result' = Concatenate(Output_Embeddings)
            /\ error' = error
            /\ pc' = "returned"
    /\ UNCHANGED <<self, failOn, call, file, segments, Audio, Audio_Segments, i,
                   Output_Embeddings, response, pending, conns, nextConn,
                   inflight, requests, prev, chunkerVars>>

Next ==
    \/ FirstCall
    \/ SecondCall
    \/ PrepareFeature
    \/ Split
    \/ LoopNext
    \/ Connect
    \/ InferSend
    \/ InferReturn
    \/ ExitWith
    \/ Collect
    \/ ConcatenateReturn

Spec == Init /\ [][Next]_vars

\* ------------------------------------------------------------ the chunker alone
pipelineVars ==
    <<self, failOn, call, file, segments, Audio, Audio_Segments, i,
      Output_Embeddings, response, pending, result, error, conns, nextConn,
      inflight, requests, prev>>

ChunkerInputs == {[k \in 1..n |-> k] : n \in 0..MaxChunkerInput}

InitChunker ==
    /\ self = NewClient("triton:8001")
    /\ failOn = -1
    /\ pc = "chunker"
    /\ call = 0
    /\ file = None
    /\ segments = <<>>
    /\ Audio = <<>>
    /\ Audio_Segments = <<>>
    /\ i = 0
    /\ Output_Embeddings = <<>>
    /\ response = None
    /\ pending = NoError
    /\ result = None
    /\ error = NoError
    /\ conns = {}
    /\ nextConn = 0
    /\ inflight = <<>>
    /\ requests = <<>>
    /\ prev = NoOutcome
    /\ cin \in ChunkerInputs
    /\ cout = None

ChunkerApply ==
    /\ pc = "chunker"
    /\ cout' = split_to_equal_chunk(cin, EXTRACT_EMB_CHUNK_SIZE)
    /\ pc' = "chunked"
    /\ UNCHANGED <<cin, pipelineVars>>

NextChunker == ChunkerApply

SpecChunker == InitChunker /\ [][NextChunker]_vars


\* ------------------------------------------------------------ properties
CeilDiv(n, c) == IF n % c = 0 THEN n \div c ELSE n \div c + 1

\* a request as the server sees it
Wire(req) ==
    [model_name |-> req.model_name, request_id |-> req.request_id,
     input_name |-> req.input_name, shape |-> req.shape,
     datatype |-> req.datatype, data |-> req.data, outputs |-> req.outputs]

WireAll(reqs) == [k \in 1..Len(reqs) |-> Wire(reqs[k])]

Mono == file # None /\ file.channels = 1

InferFailed == pending.type = "InferenceServerException"

\* C1: a run that returns gives one embedding per segment, the k-th being the
\* server's embedding of the k-th segment's feature tensor
C1_OutputMatchesSegments ==
    pc = "returned" =>
        /\ Len(result) = Len(segments)
        /\ \A k \in 1..Len(segments) : result[k] = [emb |-> segments[k].start]

C1_Witness ==
    /\ pc = "returned"
    /\ Len(Audio_Segments) >= 2
    /\ Len(result) > EXTRACT_EMB_CHUNK_SIZE
    /\ Len(result) % EXTRACT_EMB_CHUNK_SIZE # 0

\* C2: prepare_feature does not raise on a mono waveform of L >= 8000 samples
\* and frames it into floor((L - 8000) / 4000) + 1 segments of 8000 samples,
\* segment j (from 0) starting at sample j * 4000
C2_SegmentCount ==
    /\ (Mono /\ file.frames >= 8000 /\ pc = "raised") => error.type # "RuntimeError"
    /\ (Mono /\ file.frames >= 8000 /\ pc = "split") =>
        /\ self.segment_size = 8000
        /\ self.hop_size = 4000
        /\ Len(segments) = (file.frames - 8000) \div 4000 + 1
        /\ \A k \in 1..Len(segments) :
              /\ segments[k].size = 8000
              /\ segments[k].start = (k - 1) * 4000

C2_Witness ==
    /\ Mono
    /\ pc = "split"
    /\ file.frames > 8000
    /\ (file.frames - 8000) % 4000 # 0
    /\ Len(segments) > 1

\* C3 as stated: a waveform shorter than one segment fails with
\* InsufficientAudioLength, before any chunk or request, with no output
C3_AsStated ==
    (file # None /\ file.frames < self.segment_size /\ pc = "raised") =>
        /\ error.type = "InsufficientAudioLength"
        /\ Audio_Segments = <<>>
        /\ requests = <<>>
        /\ result = None

\* C3 amended: a waveform shorter than one segment never gets past
\* prepare_feature: the call fails with the RuntimeError of unfold, before any
\* chunk or request, with no output
C3_ShortWaveformRaises ==
    (file # None /\ file.frames < self.segment_size) =>
        /\ pc \in {"prepare_feature", "raised"}
        /\ pc = "raised" => error.type = "RuntimeError"
        /\ Audio_Segments = <<>>
        /\ requests = <<>>
        /\ nextConn = 0
        /\ result = None

C3_Witness ==
    /\ Mono
    /\ file.frames = self.segment_size - 1
    /\ pc = "raised"
    /\ error.type = "RuntimeError"

\* C4: for N inputs and C = 1024 the chunker gives ceil(N / C) chunks, chunk i
\* (from 0) holding positions [i*C, min((i+1)*C, N)), none empty, none above C,
\* the last of N mod C elements (C when C divides N), none for N = 0, and
\* their concatenation is the input
C4_ChunkerContract ==
    pc = "chunked" =>
        LET N == Len(cin)
            C == EXTRACT_EMB_CHUNK_SIZE
            m == Len(cout)
        IN  /\ m = CeilDiv(N, C)
            /\ \A c \in 1..m :
                  /\ Len(cout[c]) = Min(c * C, N) - (c - 1) * C
                  /\ \A k \in 1..Len(cout[c]) : cout[c][k] = cin[(c - 1) * C + k]
                  /\ Len(cout[c]) >= 1
                  /\ Len(cout[c]) <= C
            /\ m > 0 => Len(cout[m]) = IF N % C = 0 THEN C ELSE N % C
            /\ N = 0 => m = 0
            /\ Concatenate(cout) = cin

C4_Witness ==
    /\ pc = "chunked"
    /\ Len(cin) > 2 * EXTRACT_EMB_CHUNK_SIZE
    /\ Len(cin) % EXTRACT_EMB_CHUNK_SIZE # 0
    /\ Len(cout) = 3

\* C5 as stated: a failed inference call for chunk i ends the call with an
\* InferenceFailure carrying i; no retry, no later request, no partial output
C5_AsStated ==
    (InferFailed /\ pc = "raised") =>
        /\ error.type = "InferenceFailure"
        /\ error.chunk = i - 1
        /\ Len(requests) = i
        /\ result = None

\* C5 amended: a failed inference call for chunk i ends the call with the
\* client library's exception as raised (no chunk index); the request for
\* chunk i was sent once, none was sent for a later chunk, nothing is returned
C5_FailFast ==
    InferFailed =>
        /\ pc \in {"exit_with", "raised"}
        /\ pc = "raised" =>
              error = [type |-> "InferenceServerException", chunk |-> -1]
        /\ Len(requests) = i
        /\ \A k \in 1..Len(requests) : requests[k].data = Audio_Segments[k]
        /\ Len(Output_Embeddings) = i - 1
        /\ result = None

C5_Witness ==
    /\ InferFailed
    /\ pc = "raised"
    /\ i = 2
    /\ Len(Audio_Segments) = 3
    /\ Len(Output_Embeddings) = 1

\* C6: requests go out one at a time in chunk order, each after the answer
\* to the one before it, all under the request identifier "1"
C6_SerialRequests ==
    /\ Len(inflight) <= 1
    /\ inflight # <<>> =>
          /\ pc = "await"
          /\ inflight[1] = requests[Len(requests)]
          /\ Len(requests) = i
    /\ (inflight = <<>> /\ pc \in {"connect", "infer"}) => Len(requests) = i - 1
    /\ \A k \in 1..Len(requests) :
          /\ requests[k].data = Audio_Segments[k]
          /\ requests[k].request_id = "1"

C6_Witness ==
    /\ pc = "await"
    /\ Len(requests) = 2
    /\ Len(inflight) = 1
    /\ Len(Output_Embeddings) = 1

\* C7: every request has a connection of its own, opened right before it and
\* closed after it whether or not it failed; never two open, none left open
C7_ScopedConnections ==
    /\ Cardinality(conns) <= 1
    /\ conns # {} <=> pc \in {"infer", "await", "exit_with"}
    /\ conns # {} => conns = {nextConn}
    /\ inflight # <<>> => inflight[1].conn \in conns
    /\ \A j, k \in 1..Len(requests) : j # k => requests[j].conn # requests[k].conn
    /\ \A j \in 1..Len(requests), k \in 1..Len(prev.requests) :
          requests[j].conn # prev.requests[k].conn
    /\ pc \in {"await", "exit_with"} => requests[Len(requests)].conn = nextConn

C7_Witness ==
    /\ pc = "raised"
    /\ InferFailed
    /\ Len(requests) = 2
    /\ conns = {}

\* C8: a run that returns has sent one request per chunk, ceil(segments / 1024)
\* in all, each to "neuralfp" with input "input" and output "output"; 24000
\* samples give 5 segments, 1 chunk of 5, 1 request and 5 embeddings
C8_OneRequestPerChunk ==
    pc = "returned" =>
        /\ Len(requests) = Len(Audio_Segments)
        /\ Len(requests) = CeilDiv(Len(segments), 1024)
        /\ \A k \in 1..Len(requests) :
              /\ requests[k].model_name = "neuralfp"
              /\ requests[k].input_name = "input"
              /\ requests[k].outputs = <<"output">>
              /\ requests[k].data = Audio_Segments[k]
        /\ file.frames = 24000 =>
              /\ Len(segments) = 5
              /\ Len(Audio_Segments) = 1
              /\ Len(Audio_Segments[1]) = 5
              /\ Len(requests) = 1
              /\ Len(result) = 5

C8_Witness ==
    /\ pc = "returned"
    /\ file.frames = 24000
    /\ Len(requests) = 1

\* C9: a second call on the same file against the same server gives the same
\* segments, chunks, requests, output and error as the first, and no call
\* changes the client's url, segment_size, hop_size or model_name
C9_Deterministic ==
    /\ self = NewClient("triton:8001")
    /\ (call = 2 /\ Ended /\ prev.file = file) =>
          /\ prev.self = self
          /\ prev.segments = segments
          /\ prev.chunks = Audio_Segments
          /\ WireAll(prev.requests) = WireAll(requests)
          /\ prev.result = result
          /\ prev.error = error

C9_Witness ==
    /\ call = 2
    /\ pc = "returned"
    /\ prev.file = file
    /\ Len(requests) = 2
    /\ prev.result = result

\* C10: the reported sample rate changes nothing: two calls on equal waveforms
\* with different reported rates give the same segments (8000 samples, hop
\* 4000), chunks, requests and output, and no error names the rate
C10_SampleRateIgnored ==
    /\ error.type # "SampleRateMismatch"
    /\ pc = "split" =>
          \A k \in 1..Len(segments) :
              /\ segments[k].size = 8000
              /\ segments[k].start = (k - 1) * 4000
    /\ (/\ call = 2
        /\ Ended
        /\ prev.file.channels = file.channels
        /\ prev.file.frames = file.frames
        /\ prev.file.sr # file.sr) =>
          /\ prev.segments = segments
          /\ prev.chunks = Audio_Segments
          /\ WireAll(prev.requests) = WireAll(requests)
          /\ prev.result = result
          /\ prev.error = error

C10_Witness ==
    /\ call = 2
    /\ pc = "returned"
    /\ prev.file.sr = 8000
    /\ file.sr = 44100
    /\ prev.file.frames = file.frames
    /\ Len(result) = 5

====
